---- MODULE Spec2Model ----
(***************************************************************************)
(* A model of nkrane's terminology-controlled translation:                 *)
(*   - NkraneTranslator (src/nkrane/translator.py): _translate_async,       *)
(*     translate, batch_translate, batch_translate_sync;                    *)
(*   - validate_terminology_file (src/tc_translate/utils.py).               *)
(* TerminologyManager.preprocess_text / postprocess_text are imported by    *)
(* translator.py and are modelled from the specification's sections 4.1 to  *)
(* 4.3 (Matcher, Placeholder Codec, Restorer).                              *)
(*                                                                          *)
(* Text is a sequence of words.  A word is a record                         *)
(*   [kind, base, casing, idx]: kind "word" carries a lower-case base and   *)
(*   a surface casing pattern; kind "token" is the placeholder number idx.  *)
(***************************************************************************)
EXTENDS Integers, Sequences, FiniteSets, TLC

VARIABLES
    self,       \* the NkraneTranslator object's fields (with the terminology store)
    calls,      \* the frames of the _translate_async coroutines, by call id
    sync,       \* the frame of translate() / batch_translate_sync() on the caller's thread
    batch,      \* the frames of the batch_translate coroutines, by run id
    clock,      \* what the environment has done to the caller's wait
    vfile,      \* the terminology source given to validate_terminology_file
    vresult,    \* what validate_terminology_file returned
    manager,    \* the TerminologyManager the tc_translate helpers build
    ucall,      \* the frame of one export_terminology / list_available_options call
    global_translator,  \* tc-translator/utils.py: _global_translator
    threads     \* the threads inside get_translator() / translate() of tc-translator

\* The state of the helper modules (tc_translate/utils.py, tc-translator/utils.py).
utils == <<manager, ucall, global_translator, threads>>

vars == <<self, calls, sync, batch, clock, vfile, vresult, utils>>

\* No helper is in use.
UtilsUnused ==
    /\ manager = << >>
    /\ ucall = << >>
    /\ global_translator = 0
    /\ threads = << >>

(***************************** bounds ***************************************)
\* _translate_async coroutines alive at once on one translator
NumCalls == 2
\* rows of a terminology source
MaxRows == 2
\* texts in one batch
MaxBatch == 2
\* stored entries of one (domain, language) pair
MaxTerms == 2
\* (domain, language) pairs the manager lists
MaxPairs == 3
\* threads that call get_translator() / translate() of tc-translator
NumThreads == 2
\* calls one thread makes
MaxGets == 2

(***************************** words and text *******************************)
W(base, casing) == [kind |-> "word", base |-> base, casing |-> casing, idx |-> 0]

Token(i) == [kind |-> "token", base |-> "", casing |-> "", idx |-> i]

\* The terminology store of the translator's target language.
Store ==
    { [id |-> 1, term |-> W("parliament", "cap"), translation |-> W("mmarahyebadwa", "lower")],
      [id |-> 2, term |-> W("law", "lower"),      translation |-> W("mmara", "lower")] }

\* The texts the callers pass in.
Texts ==
    { << >>,
      << W("the", "cap"), W("court", "lower") >>,
      << W("the", "cap"), W("parliament", "cap") >>,
      << W("parliament", "upper"), W("law", "lower") >> }

\* What the external service makes of an ordinary word.
Gloss(w) ==
    CASE w.base = "the"   -> [w EXCEPT !.base = "no"]
      [] w.base = "court" -> [w EXCEPT !.base = "asennibea"]
      [] OTHER            -> w

IsToken(w) == w.kind = "token"

NotToken(w) == w.kind # "token"

(***************************** terminology engine ***************************)
\* Matcher: the store entry a word matches, case-insensitively.
EntryOf(terms, w) ==
    IF w.kind = "word" /\ \E e \in terms : e.term.base = w.base
    THEN { CHOOSE e \in terms : e.term.base = w.base }
    ELSE {}

\* Codec: left to right, every matching word becomes token 1, 2, ...; the
\* replacement map and the casing record are keyed by the token, in order.
RECURSIVE Encode(_, _, _)
Encode(terms, text, acc) ==
    IF text = << >> THEN acc
    ELSE LET w == Head(text)
             m == EntryOf(terms, w)
         IN  IF m = {}
             THEN Encode(terms, Tail(text), [acc EXCEPT !.text = Append(@, w)])
             ELSE LET e == CHOOSE x \in m : TRUE
                      t == Token(Len(acc.replacements) + 1)
                  IN  Encode(terms, Tail(text),
                             [text |-> Append(acc.text, t),
                              replacements |-> Append(acc.replacements, [key |-> t, entry |-> e]),
                              original_cases |-> Append(acc.original_cases, [key |-> t, surface |-> w])])

preprocess_text(terms, text) ==
    Encode(terms, text, [text |-> << >>, replacements |-> << >>, original_cases |-> << >>])

\* Restorer: the casing of the original surface applied to the target term.
ApplyCasing(target, surface) ==
    CASE surface.casing = "upper" -> [target EXCEPT !.casing = "upper"]
      [] surface.casing = "cap"   -> [target EXCEPT !.casing = "cap"]
      [] OTHER                    -> target

Lookup(pairs, key) ==
    { p \in { pairs[i] : i \in DOMAIN pairs } : p.key = key }

RestoreWord(w, replacements, original_cases) ==
    IF IsToken(w) /\ Lookup(replacements, w) # {}
    THEN LET r == CHOOSE p \in Lookup(replacements, w) : TRUE
             c == Lookup(original_cases, w)
         IN  IF c = {} THEN r.entry.translation
             ELSE ApplyCasing(r.entry.translation, (CHOOSE p \in c : TRUE).surface)
    ELSE w

RECURSIVE postprocess_text(_, _, _)
postprocess_text(translated, replacements, original_cases) ==
    IF translated = << >> THEN << >>
    ELSE << RestoreWord(Head(translated), replacements, original_cases) >>
         \o postprocess_text(Tail(translated), replacements, original_cases)

(***************************** external translator **************************)
ErrorKinds == {"TransportError", "RuntimeError", "TimeoutError"}

\* The external service translates the ordinary words and leaves the tokens.
RECURSIVE Faithful(_)
Faithful(text) ==
    IF text = << >> THEN << >> ELSE << Gloss(Head(text)) >> \o Faithful(Tail(text))

\* ... or loses the tokens on the way.
Dropping(text) == SelectSeq(Faithful(text), NotToken)

ExtOutputs(text) == { Faithful(text), Dropping(text) }

(***************************** frames ****************************************)
\* NkraneTranslator.__init__: the fields every call reads.
NewTranslator(terms) ==
    [ target_lang |-> "ak", src_lang |-> "en",
      src_lang_google |-> "en", target_lang_google |-> "ak",
      terms |-> terms ]

\* The frame of one _translate_async(text) coroutine.
\* pc: "unused" (no such coroutine yet), "start", "preprocessed", "awaiting",
\*     "translated", "postprocessed", "returned", "failed", "raised", "cancelled".
\* trace is the order in which the frame ran the three steps.
NewCall(pc, text) ==
    [ pc |-> pc, text |-> text,
      preprocessed |-> << >>, replacements |-> << >>, original_cases |-> << >>,
      sent |-> << >>, google |-> << >>, final |-> << >>,
      result |-> << >>, error |-> "", trace |-> << >> ]

\* translate() / batch_translate_sync() on the caller's thread; kind "none" when the
\* coroutines are awaited directly.
\* pc: "enter", "submit", "waiting" (future.result), "run", "running" (asyncio.run
\*     in the try body), "handler", "running_handler" (asyncio.run in the
\*     RuntimeError handler), "done".
\* path: what asyncio.get_event_loop() / loop.is_running() answered.
\* job: the coroutine the wrapper waits for; attempts: how many it has made;
\* caught: the first exception a job handed to the wrapper; slow: the deadline
\* passed before the external call had answered; inflight: the calls that
\* existed when the wrapper gave up on its timeout.
NewSync(kind, pc, texts) ==
    [ kind |-> kind, pc |-> pc, path |-> "", texts |-> texts, job |-> 0,
      attempts |-> 0, slow |-> FALSE, caught |-> "", inflight |-> {},
      outcome |-> "", error |-> "", value |-> << >> ]

NoSync == NewSync("none", "done", << >>)

\* The frame of one batch_translate(texts) coroutine.
\* pc: "unused", "loop", "awaiting", "sleeping", "returned", "raised", "cancelled".
\* i texts are done; cur is the call awaited; issued lists the calls made.
NewBatch(pc, texts) ==
    [ pc |-> pc, texts |-> texts, i |-> 0, results |-> << >>, cur |-> 0,
      issued |-> << >>, error |-> "" ]

\* The event loop that holds coroutine frames is stuck while its own thread
\* sits in future.result(): translator.py:123 and :150.
LoopBlocked == sync.pc = "waiting" /\ sync.path = "running_here"

(***************************** _translate_async ******************************)
\* A slip: the raw input goes to the external translator.
RawInput(c) == calls[c].text

\* translator.py:73: what is handed to the external translator.
ExternalInput(c) == calls[c].preprocessed

\* A slip: the replacement map kept in one place shared by all calls, so that
\* postprocess reads the map of the call that stored one last (the highest
\* call id that has preprocessed).
SharedReplacements(c) ==
    LET done == { d \in DOMAIN calls : calls[d].trace # << >> }
        last == CHOOSE d \in done : \A e \in done : e <= d
    IN  calls[last].replacements

\* translator.py:82-86: the arguments of postprocess_text.
ReplacementsOf(c) == calls[c].replacements

CasesOf(c) == calls[c].original_cases

Keys(pairs) == [ i \in DOMAIN pairs |-> pairs[i].key ]

\* A slip: the result's text taken from the wrong local.
MakeResultWrongText(c) ==
    [ text |-> calls[c].preprocessed,
      src |-> self.src_lang, dest |-> self.target_lang,
      original |-> calls[c].text,
      preprocessed |-> calls[c].preprocessed,
      google_translation |-> calls[c].google,
      replacements_count |-> Len(calls[c].replacements),
      src_google |-> self.src_lang_google, dest_google |-> self.target_lang_google,
      replaced_terms |-> Keys(calls[c].replacements) ]

\* translator.py:88-99: the result dictionary.
MakeResult(c) ==
    [ text |-> calls[c].final,
      src |-> self.src_lang, dest |-> self.target_lang,
      original |-> calls[c].text,
      preprocessed |-> calls[c].preprocessed,
      google_translation |-> calls[c].google,
      replacements_count |-> Len(calls[c].replacements),
      src_google |-> self.src_lang_google, dest_google |-> self.target_lang_google,
      replaced_terms |-> Keys(calls[c].replacements) ]

\* translator.py:64
PreprocessStep(c) ==
    /\ calls[c].pc = "start"
    /\ ~LoopBlocked
    /\ LET r == preprocess_text(self.terms, calls[c].text)
       IN  calls' = [calls EXCEPT ![c].pc = "preprocessed",
                                  ![c].preprocessed = r.text,
                                  ![c].replacements = r.replacements,
                                  ![c].original_cases = r.original_cases,
                                  ![c].trace = Append(@, "preprocess")]
    /\ UNCHANGED <<self, sync, batch, clock, vfile, vresult, utils>>

\* translator.py:71-77: the request goes out and the coroutine is suspended.
CallExternal(c) ==
    /\ calls[c].pc = "preprocessed"
    /\ ~LoopBlocked
    /\ calls' = [calls EXCEPT ![c].pc = "awaiting",
                              ![c].sent = ExternalInput(c),
                              ![c].trace = Append(@, "external")]
    /\ UNCHANGED <<self, sync, batch, clock, vfile, vresult, utils>>

\* translator.py:72,79: the external call answers.
ExternalReturns(c) ==
    /\ calls[c].pc = "awaiting"
    /\ ~LoopBlocked
    /\ \E out \in ExtOutputs(calls[c].sent) :
          calls' = [calls EXCEPT ![c].pc = "translated", ![c].google = out]
    /\ UNCHANGED <<self, sync, batch, clock, vfile, vresult, utils>>

\* translator.py:72,101: the external call raises.
ExternalFails(c) ==
    /\ calls[c].pc = "awaiting"
    /\ ~LoopBlocked
    /\ \E e \in ErrorKinds :
          calls' = [calls EXCEPT ![c].pc = "failed", ![c].error = e]
    /\ UNCHANGED <<self, sync, batch, clock, vfile, vresult, utils>>

\* translator.py:82-86
PostprocessStep(c) ==
    /\ calls[c].pc = "translated"
    /\ ~LoopBlocked
    /\ calls' = [calls EXCEPT ![c].pc = "postprocessed",
                              ![c].final = postprocess_text(calls[c].google,
                                                            ReplacementsOf(c), CasesOf(c)),
                              ![c].trace = Append(@, "postprocess")]
    /\ UNCHANGED <<self, sync, batch, clock, vfile, vresult, utils>>

\* translator.py:88-99
ReturnResult(c) ==
    /\ calls[c].pc = "postprocessed"
    /\ ~LoopBlocked
    /\ calls' = [calls EXCEPT ![c].pc = "returned", ![c].result = << MakeResult(c) >>]
    /\ UNCHANGED <<self, sync, batch, clock, vfile, vresult, utils>>

\* translator.py:101-103: log and re-raise the same exception.
LogAndRaise(c) ==
    /\ calls[c].pc = "failed"
    /\ ~LoopBlocked
    /\ calls' = [calls EXCEPT ![c].pc = "raised"]
    /\ UNCHANGED <<self, sync, batch, clock, vfile, vresult, utils>>

(***************************** Spec: concurrent calls ************************)
\* NumCalls coroutines of _translate_async on one translator, interleaved at
\* will (the callers await them on one loop or run them from several threads).
\* The translator's language has terminology, or none at all.
Init ==
    /\ self \in { NewTranslator(Store), NewTranslator({}) }
    /\ calls \in [1..NumCalls -> { NewCall("start", t) : t \in Texts }]
    /\ sync = NoSync
    /\ batch = << >>
    /\ clock = "early"
    /\ vfile = << >>
    /\ vresult = << >>
    /\ UtilsUnused

Next ==
    \/ \E c \in DOMAIN calls : PreprocessStep(c)
    \/ \E c \in DOMAIN calls : CallExternal(c)
    \/ \E c \in DOMAIN calls : ExternalReturns(c)
    \/ \E c \in DOMAIN calls : ExternalFails(c)
    \/ \E c \in DOMAIN calls : PostprocessStep(c)
    \/ \E c \in DOMAIN calls : ReturnResult(c)
    \/ \E c \in DOMAIN calls : LogAndRaise(c)

Spec == Init /\ [][Next]_vars

(***************************** batch_translate *******************************)
\* The next call id not in use.
FreeCall == Cardinality({ c \in DOMAIN calls : calls[c].pc # "unused" }) + 1

\* A slip: the calls are started as tasks, the next one without waiting for
\* the one before.
BatchNextEager(r) ==
    /\ batch[r].pc \in {"loop", "awaiting"}
    /\ Len(batch[r].issued) < Len(batch[r].texts)
    /\ ~LoopBlocked
    /\ FreeCall \in DOMAIN calls
    /\ calls' = [calls EXCEPT ![FreeCall] =
                    NewCall("start", batch[r].texts[Len(batch[r].issued) + 1])]
    /\ batch' = [batch EXCEPT ![r].pc = "awaiting", ![r].cur = FreeCall,
                              ![r].issued = Append(@, FreeCall)]
    /\ UNCHANGED <<self, sync, clock, vfile, vresult, utils>>

\* translator.py:135-136: the next text's _translate_async is awaited.
BatchNext(r) ==
    /\ batch[r].pc = "loop"
    /\ batch[r].i < Len(batch[r].texts)
    /\ ~LoopBlocked
    /\ FreeCall \in DOMAIN calls
    /\ calls' = [calls EXCEPT ![FreeCall] = NewCall("start", batch[r].texts[batch[r].i + 1])]
    /\ batch' = [batch EXCEPT ![r].pc = "awaiting", ![r].cur = FreeCall,
                              ![r].issued = Append(@, FreeCall)]
    /\ UNCHANGED <<self, sync, clock, vfile, vresult, utils>>

\* translator.py:136-138: the call returned; its result is appended, then sleep(0.1).
BatchAppend(r) ==
    /\ batch[r].pc = "awaiting"
    /\ calls[batch[r].cur].pc = "returned"
    /\ ~LoopBlocked
    /\ batch' = [batch EXCEPT ![r].pc = "sleeping",
                              ![r].results = Append(@, calls[batch[r].cur].result[1])]
    /\ UNCHANGED <<self, calls, sync, clock, vfile, vresult, utils>>

\* translator.py:136: the call raised; nothing in batch_translate catches it.
BatchAbort(r) ==
    /\ batch[r].pc = "awaiting"
    /\ calls[batch[r].cur].pc = "raised"
    /\ ~LoopBlocked
    /\ batch' = [batch EXCEPT ![r].pc = "raised", ![r].error = calls[batch[r].cur].error]
    /\ UNCHANGED <<self, calls, sync, clock, vfile, vresult, utils>>

\* translator.py:138: the rate-limit sleep is over.
BatchWake(r) ==
    /\ batch[r].pc = "sleeping"
    /\ ~LoopBlocked
    /\ batch' = [batch EXCEPT ![r].pc = "loop", ![r].i = @ + 1]
    /\ UNCHANGED <<self, calls, sync, clock, vfile, vresult, utils>>

\* translator.py:139
BatchReturn(r) ==
    /\ batch[r].pc = "loop"
    /\ batch[r].i = Len(batch[r].texts)
    /\ ~LoopBlocked
    /\ batch' = [batch EXCEPT ![r].pc = "returned"]
    /\ UNCHANGED <<self, calls, sync, clock, vfile, vresult, utils>>

\* The caller that runs batch_translate as a task cancels it: CancelledError
\* is thrown at the await the coroutine is suspended in (translator.py:72 or
\* :138); it is no Exception, so translator.py:101 lets it pass.
CancelBatch(r) ==
    /\ sync.kind = "task"
    /\ \/ /\ batch[r].pc = "sleeping"
          /\ UNCHANGED calls
       \/ /\ batch[r].pc = "awaiting"
          /\ calls[batch[r].cur].pc = "awaiting"
          /\ calls' = [calls EXCEPT ![batch[r].cur].pc = "cancelled"]
    /\ batch' = [batch EXCEPT ![r].pc = "cancelled"]
    /\ UNCHANGED <<self, sync, clock, vfile, vresult, utils>>

(***************************** translate, batch_translate_sync ***************)
\* translate() (translator.py:116-130) and batch_translate_sync()
\* (translator.py:143-157) are the same code around another coroutine and
\* another timeout; sync.kind tells them apart.
Paths == {"no_loop", "idle_loop", "running_here", "running_elsewhere"}

JobPc == IF sync.kind = "translate" THEN calls[sync.job].pc ELSE batch[sync.job].pc

JobError == IF sync.kind = "translate" THEN calls[sync.job].error ELSE batch[sync.job].error

JobValue == IF sync.kind = "translate" THEN calls[sync.job].result ELSE batch[sync.job].results

\* The external call the job is at has not answered yet.
JobCall == IF sync.kind = "translate" THEN sync.job ELSE batch[sync.job].cur

ExternalPending ==
    \/ sync.kind = "batch" /\ batch[sync.job].pc \in {"loop", "sleeping"}
                           /\ batch[sync.job].i < Len(batch[sync.job].texts)
    \/ JobCall # 0 /\ calls[JobCall].pc \in {"start", "preprocessed", "awaiting"}

\* self._translate_async(text) / self.batch_translate(texts): a new coroutine.
StartJob ==
    /\ IF sync.kind = "translate"
       THEN /\ calls' = [calls EXCEPT ![sync.attempts + 1] = NewCall("start", sync.texts[1])]
            /\ UNCHANGED batch
       ELSE /\ batch' = [batch EXCEPT ![sync.attempts + 1] = NewBatch("loop", sync.texts)]
            /\ UNCHANGED calls

\* translator.py:117-118 (144-145): get_event_loop() raises RuntimeError, or
\* gives a loop that is not running, or one that runs on this thread, or one
\* that another thread runs.
GetEventLoop ==
    /\ sync.pc = "enter"
    /\ \E p \in Paths :
          sync' = [sync EXCEPT !.path = p,
                               !.pc = CASE p = "no_loop"   -> "handler"
                                        [] p = "idle_loop" -> "run"
                                        [] OTHER           -> "submit"]
    /\ UNCHANGED <<self, calls, batch, clock, vfile, vresult, utils>>

\* translator.py:119-123 (146-150): run_coroutine_threadsafe, then future.result.
Submit ==
    /\ sync.pc = "submit"
    /\ StartJob
    /\ sync' = [sync EXCEPT !.pc = "waiting", !.job = sync.attempts + 1, !.attempts = @ + 1]
    /\ UNCHANGED <<self, clock, vfile, vresult, utils>>

\* translator.py:125 (152): asyncio.run in the try body.
RunInTry ==
    /\ sync.pc = "run"
    /\ StartJob
    /\ sync' = [sync EXCEPT !.pc = "running", !.job = sync.attempts + 1, !.attempts = @ + 1]
    /\ UNCHANGED <<self, clock, vfile, vresult, utils>>

\* translator.py:126-127 (153-154): except RuntimeError: asyncio.run again.
RunInHandler ==
    /\ sync.pc = "handler"
    /\ StartJob
    /\ sync' = [sync EXCEPT !.pc = "running_handler", !.job = sync.attempts + 1,
                            !.attempts = @ + 1]
    /\ UNCHANGED <<self, clock, vfile, vresult, utils>>

\* translator.py:123,125,127: the coroutine returned; so does the wrapper.
JobReturns ==
    /\ sync.pc \in {"waiting", "running", "running_handler"}
    /\ JobPc = "returned"
    /\ sync' = [sync EXCEPT !.pc = "done", !.outcome = "returned", !.value = JobValue]
    /\ UNCHANGED <<self, calls, batch, clock, vfile, vresult, utils>>

\* The coroutine raised.  In the try body a RuntimeError lands in the handler
\* of translator.py:126 (153), a TimeoutError in that of :128 (155), which logs
\* and re-raises; anything else, and anything raised inside the RuntimeError
\* handler, leaves the wrapper as it is.
JobRaises ==
    /\ sync.pc \in {"waiting", "running", "running_handler"}
    /\ JobPc = "raised"
    /\ sync' = IF sync.pc # "running_handler" /\ JobError = "RuntimeError"
               THEN [sync EXCEPT !.pc = "handler",
                                 !.caught = IF @ = "" THEN JobError ELSE @]
               ELSE [sync EXCEPT !.pc = "done", !.outcome = "raised", !.error = JobError,
                                 !.caught = IF @ = "" THEN JobError ELSE @]
    /\ UNCHANGED <<self, calls, batch, clock, vfile, vresult, utils>>

\* translator.py:123,128-130 (150,155-157): the timeout of future.result ends
\* the wait while the future is not done; the coroutine is left on its loop.
FutureTimesOut ==
    /\ sync.pc = "waiting"
    /\ JobPc \notin {"returned", "raised"}
    /\ clock' = "late"
    /\ sync' = [sync EXCEPT !.pc = "done", !.outcome = "raised", !.error = "TimeoutError",
                            !.slow = ExternalPending,
                            !.inflight = { c \in DOMAIN calls : calls[c].pc # "unused" }]
    /\ UNCHANGED <<self, calls, batch, vfile, vresult, utils>>

\* translator.py:125,127 (152,154): asyncio.run has no timeout; the same
\* deadline passes and nothing happens.
DeadlinePasses ==
    /\ sync.pc \in {"running", "running_handler"}
    /\ JobPc \notin {"returned", "raised"}
    /\ clock = "early"
    /\ clock' = "late"
    /\ sync' = [sync EXCEPT !.slow = ExternalPending]
    /\ UNCHANGED <<self, calls, batch, vfile, vresult, utils>>

(***************************** properties of the calls ***********************)
StepOrder == << "preprocess", "external", "postprocess" >>

IsPrefix(s, t) == Len(s) <= Len(t) /\ \A i \in 1..Len(s) : s[i] = t[i]

\* What preprocess makes of the call's own text.
OwnPre(c) == preprocess_text(self.terms, calls[c].text)

Issued(c) == calls[c].pc \in {"awaiting", "translated", "postprocessed", "returned", "failed", "raised"}

\* The text has no word that is a term of the store.
NoMatch(c) ==
    \A i \in DOMAIN calls[c].text : \A e \in self.terms : e.term.base # calls[c].text[i].base

\* C5: every call runs preprocess, the external call and postprocess once each
\* and in that order; the external call is handed the preprocessed text, never
\* the raw input; postprocess runs only after the external call succeeded, on
\* its output and with the map and casing record of the same call's preprocess;
\* a failed external call leaves postprocess unrun and no result.
C5_StepsInOrder ==
    \A c \in DOMAIN calls :
        /\ IsPrefix(calls[c].trace, StepOrder)
        /\ Issued(c) =>
              /\ Len(calls[c].trace) >= 2
              /\ calls[c].sent = OwnPre(c).text
              /\ ~NoMatch(c) => calls[c].sent # calls[c].text
        /\ Len(calls[c].trace) = 3 =>
              /\ calls[c].pc \in {"postprocessed", "returned"}
              /\ calls[c].error = ""
              /\ calls[c].google \in ExtOutputs(calls[c].sent)
              /\ calls[c].final = postprocess_text(calls[c].google, OwnPre(c).replacements,
                                                   OwnPre(c).original_cases)
        /\ calls[c].pc \in {"failed", "raised"} =>
              /\ calls[c].trace = << "preprocess", "external" >>
              /\ calls[c].result = << >>
        /\ calls[c].pc = "returned" <=> Len(calls[c].result) = 1
        /\ calls[c].pc = "returned" => calls[c].trace = StepOrder

\* One call has returned a result for a text with a term, another has raised.
C5_Witness ==
    \E c, d \in DOMAIN calls :
        /\ calls[c].pc = "returned" /\ ~NoMatch(c)
        /\ calls[d].pc = "raised"

\* The result a call produces when it runs alone on `text` and the external
\* translator answers `google`.
Alone(text, google) ==
    LET pre == preprocess_text(self.terms, text)
    IN  [ text |-> postprocess_text(google, pre.replacements, pre.original_cases),
          src |-> "en", dest |-> "ak",
          original |-> text,
          preprocessed |-> pre.text,
          google_translation |-> google,
          replacements_count |-> Len(pre.replacements),
          src_google |-> "en", dest_google |-> "ak",
          replaced_terms |-> Keys(pre.replacements) ]

\* C6: calls interleaved at will on one translator do not see each other:
\* each result is the one the call produces alone, each postprocess used the
\* map of its own preprocess, and the translator's fields and terminology
\* store stay as constructed.
C6_NoCrossCallState ==
    /\ self \in { NewTranslator(Store), NewTranslator({}) }
    /\ \A c \in DOMAIN calls :
          /\ calls[c].trace # << >> =>
                /\ calls[c].replacements = OwnPre(c).replacements
                /\ calls[c].original_cases = OwnPre(c).original_cases
          /\ calls[c].pc \in {"postprocessed", "returned"} =>
                calls[c].final = Alone(calls[c].text, calls[c].google).text
          /\ calls[c].pc = "returned" =>
                calls[c].result = << Alone(calls[c].text, calls[c].google) >>

\* A call has returned while a later call with another, non-empty map is in flight.
C6_Witness ==
    \E c, d \in DOMAIN calls :
        /\ c < d
        /\ calls[c].pc = "returned" /\ calls[c].replacements # << >>
        /\ calls[c].final # calls[c].google
        /\ calls[d].pc = "awaiting" /\ calls[d].replacements # << >>
        /\ calls[d].replacements # calls[c].replacements

\* The terms restored into the final text: the keys of the map that the
\* external translator's output still holds.
Restored(c) ==
    { i \in DOMAIN calls[c].replacements :
        \E j \in DOMAIN calls[c].google : calls[c].google[j] = calls[c].replacements[i].key }

\* C7: a returned result's replacements_count is the number of terms restored
\* into the final text.
C7_CountIsRestored ==
    \A c \in DOMAIN calls :
        calls[c].pc = "returned" =>
            calls[c].result[1].replacements_count = Cardinality(Restored(c))

\* C8: a text without any terminology match (the store may be empty) goes to
\* the external translator unchanged and does not fail on its own; the result's
\* text is the external translator's output, with a count of 0 and no terms.
C8_ZeroMatch ==
    \A c \in DOMAIN calls :
        NoMatch(c) =>
            /\ calls[c].trace # << >> => calls[c].preprocessed = calls[c].text
            /\ Issued(c) => calls[c].sent = calls[c].text
            /\ calls[c].pc \in {"failed", "raised"} => calls[c].error \in ErrorKinds
            /\ calls[c].pc = "returned" =>
                  /\ calls[c].result[1].text = calls[c].google
                  /\ calls[c].result[1].replacements_count = 0
                  /\ calls[c].result[1].replaced_terms = << >>

\* On a translator whose language has no terminology, a call has returned
\* what the external translator made of its text.
C8_Witness ==
    \E c \in DOMAIN calls :
        /\ NoMatch(c) /\ calls[c].text # << >>
        /\ calls[c].pc = "returned"
        /\ calls[c].result[1].text # calls[c].text
        /\ self.terms = {}

(***************************** SpecTranslate: one translate() *****************)
InitTranslate ==
    /\ self = NewTranslator(Store)
    /\ calls = [c \in 1..2 |-> NewCall("unused", << >>)]
    /\ sync \in { NewSync("translate", "enter", << t >>) : t \in Texts }
    /\ batch = << >>
    /\ clock = "early"
    /\ vfile = << >>
    /\ vresult = << >>
    /\ UtilsUnused

NextTranslate ==
    \/ GetEventLoop
    \/ Submit
    \/ RunInTry
    \/ RunInHandler
    \/ JobReturns
    \/ JobRaises
    \/ FutureTimesOut
    \/ DeadlinePasses
    \/ \E c \in DOMAIN calls : PreprocessStep(c)
    \/ \E c \in DOMAIN calls : CallExternal(c)
    \/ \E c \in DOMAIN calls : ExternalReturns(c)
    \/ \E c \in DOMAIN calls : ExternalFails(c)
    \/ \E c \in DOMAIN calls : PostprocessStep(c)
    \/ \E c \in DOMAIN calls : ReturnResult(c)
    \/ \E c \in DOMAIN calls : LogAndRaise(c)

SpecTranslate == InitTranslate /\ [][NextTranslate]_vars

(***************************** SpecBatch: one batch ***************************)
\* The batches the callers pass in: up to MaxBatch texts.
Batches == UNION { [1..n -> Texts] : n \in 0..MaxBatch }

\* The batch goes through batch_translate_sync(), or the caller runs
\* batch_translate() as a task of its own loop.
InitBatch ==
    /\ self = NewTranslator(Store)
    /\ calls = [c \in 1..(2 * MaxBatch) |-> NewCall("unused", << >>)]
    /\ \E ts \in Batches :
          \/ /\ sync = NewSync("batch", "enter", ts)
             /\ batch = [r \in 1..2 |-> NewBatch("unused", << >>)]
          \/ /\ sync = NewSync("task", "awaiting", ts)
             /\ batch = [r \in 1..2 |-> IF r = 1 THEN NewBatch("loop", ts)
                                                 ELSE NewBatch("unused", << >>)]
    /\ clock = "early"
    /\ vfile = << >>
    /\ vresult = << >>
    /\ UtilsUnused

NextBatch ==
    \/ GetEventLoop
    \/ Submit
    \/ RunInTry
    \/ RunInHandler
    \/ JobReturns
    \/ JobRaises
    \/ FutureTimesOut
    \/ DeadlinePasses
    \/ \E r \in DOMAIN batch : BatchNext(r)
    \/ \E r \in DOMAIN batch : BatchAppend(r)
    \/ \E r \in DOMAIN batch : BatchAbort(r)
    \/ \E r \in DOMAIN batch : BatchWake(r)
    \/ \E r \in DOMAIN batch : BatchReturn(r)
    \/ \E r \in DOMAIN batch : CancelBatch(r)
    \/ \E c \in DOMAIN calls : PreprocessStep(c)
    \/ \E c \in DOMAIN calls : CallExternal(c)
    \/ \E c \in DOMAIN calls : ExternalReturns(c)
    \/ \E c \in DOMAIN calls : ExternalFails(c)
    \/ \E c \in DOMAIN calls : PostprocessStep(c)
    \/ \E c \in DOMAIN calls : ReturnResult(c)
    \/ \E c \in DOMAIN calls : LogAndRaise(c)

SpecBatch == InitBatch /\ [][NextBatch]_vars

(***************************** validate_terminology_file *********************)
\* A terminology source as pandas.read_csv sees it: unreadable (read_csv
\* raises), or a table with its header's columns and its rows.
RequiredColumns == {"id", "term", "translation"}

RowValues ==
    [ id : {5, 6},
      term : { W("parliament", "cap"), W("parliament", "lower"), W("law", "lower") },
      translation : { W("mmara", "lower") } ]

Files ==
    [ readable : BOOLEAN,
      columns : SUBSET RequiredColumns,
      rows : UNION { [1..n -> RowValues] : n \in 0..MaxRows } ]

\* Series.duplicated().any(): two rows hold the same value.
Duplicated(column) ==
    \E i, j \in DOMAIN column : i < j /\ column[i] = column[j]

TermColumn(f) == [ i \in DOMAIN f.rows |-> f.rows[i].term ]

IdColumn(f) == [ i \in DOMAIN f.rows |-> f.rows[i].id ]

\* utils.py:70
DuplicatedTerms(f) == Duplicated(TermColumn(f))

\* A slip of copy and paste: the term column is looked at twice.
DuplicatedIdsOfTerms(f) == Duplicated(TermColumn(f))

\* utils.py:73
DuplicatedIds(f) == Duplicated(IdColumn(f))

\* utils.py:61-79
validate_terminology_file(f) ==
    IF ~f.readable
    THEN [flag |-> FALSE, reason |-> "Error reading file"]
    ELSE IF ~(RequiredColumns \subseteq f.columns)
    THEN [flag |-> FALSE, reason |-> "Missing required columns"]
    ELSE IF DuplicatedTerms(f)
    THEN [flag |-> FALSE, reason |-> "Duplicate terms found"]
    ELSE IF DuplicatedIds(f)
    THEN [flag |-> FALSE, reason |-> "Duplicate IDs found"]
    ELSE [flag |-> TRUE, reason |-> "File is valid"]

Validate ==
    /\ vresult = << >>
    /\ vresult' = << validate_terminology_file(vfile) >>
    /\ UNCHANGED <<self, calls, sync, batch, clock, vfile, utils>>

InitValidate ==
    /\ self = NewTranslator(Store)
    /\ calls = << >>
    /\ sync = NoSync
    /\ batch = << >>
    /\ clock = "early"
    /\ vfile \in Files
    /\ vresult = << >>
    /\ UtilsUnused

NextValidate == Validate

SpecValidate == InitValidate /\ [][NextValidate]_vars

(***************************** properties of translate() *********************)
\* The calls that ran preprocess, and those that went to the external translator.
NPre == Cardinality({ c \in DOMAIN calls : Len(calls[c].trace) >= 1 })

NExt == Cardinality({ c \in DOMAIN calls : Len(calls[c].trace) >= 2 })

\* C2: when the external call fails during translate(), translate() raises
\* that same error, having made one external call and one preprocess.
C2_ErrorPropagatesNoRetry ==
    sync.kind = "translate" /\ sync.pc = "done" /\ sync.caught # "" =>
        /\ sync.outcome = "raised"
        /\ sync.error = sync.caught
        /\ NExt = 1
        /\ NPre = 1

\* C3: a translate() whose external call had not answered by the deadline
\* ends by raising a timeout error, on every path.
C3_SlowCallTimesOut ==
    sync.kind = "translate" /\ sync.pc = "done" /\ sync.slow =>
        /\ sync.outcome = "raised"
        /\ sync.error = "TimeoutError"

(***************************** properties of the batch ************************)
\* C1: a failing external call does not abort the batch: no run of
\* batch_translate ends by raising, and a run that returns has made a call for
\* every text.
C1_BatchSurvivesFailure ==
    \A r \in DOMAIN batch :
        /\ batch[r].pc # "raised"
        /\ batch[r].pc = "returned" => Len(batch[r].issued) = Len(batch[r].texts)

\* batch_translate_sync gave up on its timeout, or the batch task was cancelled.
Abandoned ==
    \/ sync.kind = "batch" /\ sync.pc = "done" /\ sync.error = "TimeoutError" /\ sync.caught = ""
    \/ \E r \in DOMAIN batch : batch[r].pc = "cancelled"

\* C4: once the batch is cancelled or abandoned, no external call is issued
\* for the remaining texts: only a call that existed by then may still go on.
C4_NoCallAfterAbandon ==
    [][Abandoned =>
         \A c \in DOMAIN calls : Issued(c)' /\ ~Issued(c) => c \in sync.inflight]_vars

(***************************** properties of validation ***********************)
HasResult == vresult # << >>

MissingField(f) == ~f.readable \/ ~(RequiredColumns \subseteq f.columns)

SameId(f) == \E i, j \in DOMAIN f.rows : i < j /\ f.rows[i].id = f.rows[j].id

\* Two rows whose terms are equal case-insensitively.
SameTermAnyCase(f) ==
    \E i, j \in DOMAIN f.rows : i < j /\ f.rows[i].term.base = f.rows[j].term.base

\* Two rows whose terms are the same string.
SameTermExactly(f) ==
    \E i, j \in DOMAIN f.rows : i < j /\ f.rows[i].term = f.rows[j].term

\* C9: the flag is False exactly when a required field is missing, or two rows
\* share an id, or two rows have terms equal case-insensitively.
C9_FlagExactlyWhenInvalid ==
    HasResult =>
        (vresult[1].flag = FALSE
            <=> (MissingField(vfile) \/ SameId(vfile) \/ SameTermAnyCase(vfile)))

\* C10 as stated: two rows sharing an id always give the duplicate-ID reason.
C10_DuplicateIdReason ==
    HasResult /\ ~MissingField(vfile) /\ SameId(vfile) =>
        /\ vresult[1].flag = FALSE
        /\ vresult[1].reason = "Duplicate IDs found"

\* C10 amended: two rows sharing an id always fail validation; the reason is
\* the duplicate-ID one unless two rows hold the same term string, and then the
\* duplicate-terms one.
C10_DuplicateIdFails ==
    HasResult /\ ~MissingField(vfile) /\ SameId(vfile) =>
        /\ vresult[1].flag = FALSE
        /\ vresult[1].reason = IF SameTermExactly(vfile) THEN "Duplicate terms found"
                                                         ELSE "Duplicate IDs found"

\* A source with two rows of one id and two different terms was validated.
C10_Witness ==
    /\ HasResult /\ ~MissingField(vfile)
    /\ SameId(vfile) /\ ~SameTermAnyCase(vfile)
    /\ vresult[1].reason = "Duplicate IDs found"

(***************************** export_terminology ****************************)
\* TerminologyManager of tc_translate: manager.terms maps a (domain, language)
\* pair to the entries stored for it, an empty sequence when the pair's source
\* holds no row; a pair outside its domain has no source at all.
Domains == {"politics", "law"}

Languages == {"ak", "ee"}

ExportEntries ==
    { [id |-> 1, term |-> "Parliament", translation |-> "Mmarahyebadwa"],
      [id |-> 2, term |-> "court, high", translation |-> "Asennibea"] }

\* The values of a terms dictionary: entries of distinct terms.
TermLists ==
    { l \in UNION { [1..n -> ExportEntries] : n \in 0..MaxTerms } :
        \A i, j \in DOMAIN l : i # j => l[i].term # l[j].term }

\* TerminologyManager.get_terms_for_domain_lang
get_terms_for_domain_lang(m, domain, language) ==
    IF << domain, language >> \in DOMAIN m.terms THEN m.terms[<< domain, language >>]
    ELSE << >>

\* str() of an id, as csv.DictWriter writes it.
Str(v) ==
    CASE v = 1 -> "1"
      [] v = 2 -> "2"
      [] OTHER -> "0"

\* json.dumps: an id stays a number, a string stays a string.
JsonNumber(v) == [type |-> "number", text |-> Str(v)]

JsonString(v) == [type |-> "string", text |-> v]

\* csv.DictWriter (QUOTE_MINIMAL): a cell is text; one that holds the delimiter is quoted.
CsvCell(text) == [text |-> text, quoted |-> text = "court, high"]

\* utils.py:36-43
TermsList(terms_dict) ==
    [ i \in DOMAIN terms_dict |->
        [ id |-> terms_dict[i].id, term |-> terms_dict[i].term,
          translation |-> terms_dict[i].translation ] ]

\* utils.py:46
JsonDumps(terms_list) ==
    [ kind |-> "json",
      items |-> [ i \in DOMAIN terms_list |->
                    [ id |-> JsonNumber(terms_list[i].id),
                      term |-> JsonString(terms_list[i].term),
                      translation |-> JsonString(terms_list[i].translation) ] ] ]

\* utils.py:48-54
CsvDump(terms_list) ==
    [ kind |-> "csv",
      header |-> << "id", "term", "translation" >>,
      rows |-> [ i \in DOMAIN terms_list |->
                   << CsvCell(Str(terms_list[i].id)), CsvCell(terms_list[i].term),
                      CsvCell(terms_list[i].translation) >> ] ]

\* A slip: `is None` where the manager answers an empty dictionary.
IsNone(terms_dict) == FALSE

\* utils.py:33: not terms_dict
NotTerms(terms_dict) == terms_dict = << >>

\* utils.py:27-56
export_terminology(m, domain, language, output_format) ==
    LET terms_dict == get_terms_for_domain_lang(m, domain, language)
        terms_list == TermsList(terms_dict)
    IN  IF NotTerms(terms_dict)
        THEN [pc |-> "raised", error |-> "ValueError", value |-> << >>]
        ELSE [pc |-> "returned", error |-> "",
              value |-> CASE output_format = "json" -> JsonDumps(terms_list)
                          [] output_format = "csv"  -> CsvDump(terms_list)
                          [] OTHER -> [kind |-> "list", items |-> terms_list]]

OutputFormats == {"json", "csv", "xml"}

ExportTerminology ==
    /\ ucall.fn = "export_terminology"
    /\ ucall.pc = "called"
    /\ LET r == export_terminology(manager, ucall.domain, ucall.language, ucall.output_format)
       IN  ucall' = [ucall EXCEPT !.pc = r.pc, !.error = r.error, !.value = r.value]
    /\ UNCHANGED <<self, calls, sync, batch, clock, vfile, vresult,
                   manager, global_translator, threads>>

\* The manager holds sources for the language "ak" only.
InitExport ==
    /\ self = NewTranslator(Store)
    /\ calls = << >>
    /\ sync = NoSync
    /\ batch = << >>
    /\ clock = "early"
    /\ vfile = << >>
    /\ vresult = << >>
    /\ manager \in { [terms |-> t, pairs |-> << >>] :
                        t \in [ { << d, "ak" >> : d \in Domains } -> TermLists ] }
    /\ ucall \in { [fn |-> "export_terminology", pc |-> "called", domain |-> d, language |-> l,
                     output_format |-> f, error |-> "", value |-> << >>] :
                       d \in Domains, l \in Languages, f \in OutputFormats }
    /\ global_translator = 0
    /\ threads = << >>

NextExport == ExportTerminology

SpecExport == InitExport /\ [][NextExport]_vars

(***************************** properties of export ***************************)
\* What the manager stores for the pair the call names.
Stored == get_terms_for_domain_lang(manager, ucall.domain, ucall.language)

ExportDone == ucall # << >> /\ ucall.fn = "export_terminology" /\ ucall.pc # "called"

\* The export holds one record per stored entry, with its id, term and translation.
JsonCarries(v, stored) ==
    /\ DOMAIN v.items = DOMAIN stored
    /\ \A i \in DOMAIN stored :
          /\ v.items[i].id = [type |-> "number", text |-> Str(stored[i].id)]
          /\ v.items[i].term = [type |-> "string", text |-> stored[i].term]
          /\ v.items[i].translation = [type |-> "string", text |-> stored[i].translation]

CsvCarries(v, stored) ==
    /\ v.header = << "id", "term", "translation" >>
    /\ DOMAIN v.rows = DOMAIN stored
    /\ \A i \in DOMAIN stored :
          /\ v.rows[i][1].text = Str(stored[i].id)
          /\ v.rows[i][2].text = stored[i].term
          /\ v.rows[i][3].text = stored[i].translation
          /\ \A k \in 1..3 : v.rows[i][k].quoted <=> v.rows[i][k].text = "court, high"

ListCarries(v, stored) ==
    /\ DOMAIN v.items = DOMAIN stored
    /\ \A i \in DOMAIN stored :
          v.items[i] = [id |-> stored[i].id, term |-> stored[i].term,
                        translation |-> stored[i].translation]

\* C11 as stated: the export raises for a pair without terminology, whatever
\* the format, and otherwise returns a JSON array or an equivalent CSV with one
\* record per stored entry.
C11_ExportJsonOrCsv ==
    ExportDone =>
        /\ Stored = << >> <=> ucall.pc = "raised"
        /\ ucall.pc = "returned" =>
              \/ ucall.value.kind = "json" /\ JsonCarries(ucall.value, Stored)
              \/ ucall.value.kind = "csv" /\ CsvCarries(ucall.value, Stored)

\* C11 amended: the export raises for a pair without terminology, whatever the
\* format, and never returns an empty export; otherwise it returns one record
\* per stored entry: a JSON array for "json", a CSV for "csv", and the plain
\* list of records for any other format.
C11_ExportByFormat ==
    ExportDone =>
        /\ Stored = << >> <=> ucall.pc = "raised"
        /\ ucall.pc = "raised" => ucall.error = "ValueError" /\ ucall.value = << >>
        /\ ucall.pc = "returned" =>
              CASE ucall.output_format = "json" ->
                     ucall.value.kind = "json" /\ JsonCarries(ucall.value, Stored)
                [] ucall.output_format = "csv" ->
                     ucall.value.kind = "csv" /\ CsvCarries(ucall.value, Stored)
                [] OTHER ->
                     ucall.value.kind = "list" /\ ListCarries(ucall.value, Stored)

\* A pair with two entries was exported as CSV.
C11_Witness ==
    /\ ExportDone /\ ucall.pc = "returned"
    /\ ucall.output_format = "csv"
    /\ Len(Stored) = 2 /\ Len(ucall.value.rows) = 2

(***************************** properties of the running-loop path ************)
\* C12: while translate() waits in future.result() for the coroutine it gave
\* to a running loop, that coroutine gets to run: its first step can be taken.
C12_WaitLetsCoroutineRun ==
    sync.kind = "translate" /\ sync.pc = "waiting" /\ calls[sync.job].pc = "start" =>
        ENABLED PreprocessStep(sync.job)

(***************************** get_translator *********************************)
\* tc-translator/utils.py.  global_translator is 0 for None, else the number
\* of the Terminex instance.  A thread's frame: pc "idle", "check", "construct",
\* "assign", "return", "use"; fn is the helper it called; local is the instance
\* it constructed; made lists the instances it has constructed, got the
\* instances get_translator() has returned to it.
NewThread ==
    [ pc |-> "idle", fn |-> "", local |-> 0, made |-> << >>, got |-> << >> ]

RECURSIVE SumMade(_)
SumMade(ts) ==
    IF ts = {} THEN 0
    ELSE LET t == CHOOSE x \in ts : TRUE IN Len(threads[t].made) + SumMade(ts \ {t})

\* The Terminex instances constructed so far.
TotalMade == SumMade(DOMAIN threads)

\* utils.py:13 and :54: a thread calls get_translator(), directly or through translate().
CallHelper(t) ==
    /\ threads[t].pc = "idle"
    /\ Len(threads[t].got) < MaxGets
    /\ \E f \in {"get_translator", "translate"} :
          threads' = [threads EXCEPT ![t].pc = "check", ![t].fn = f]
    /\ UNCHANGED <<self, calls, sync, batch, clock, vfile, vresult, manager, ucall,
                   global_translator>>

\* utils.py:16: if _global_translator is None
CheckNone(t) ==
    /\ threads[t].pc = "check"
    /\ threads' = [threads EXCEPT ![t].pc = IF global_translator = 0 THEN "construct"
                                                                     ELSE "return"]
    /\ UNCHANGED <<self, calls, sync, batch, clock, vfile, vresult, manager, ucall,
                   global_translator>>

\* utils.py:17, the right-hand side: Terminex()
Construct(t) ==
    /\ threads[t].pc = "construct"
    /\ threads' = [threads EXCEPT ![t].pc = "assign", ![t].local = TotalMade + 1,
                                  ![t].made = Append(@, TotalMade + 1)]
    /\ UNCHANGED <<self, calls, sync, batch, clock, vfile, vresult, manager, ucall,
                   global_translator>>

\* utils.py:17, the store to the global
Assign(t) ==
    /\ threads[t].pc = "assign"
    /\ global_translator' = threads[t].local
    /\ threads' = [threads EXCEPT ![t].pc = "return"]
    /\ UNCHANGED <<self, calls, sync, batch, clock, vfile, vresult, manager, ucall>>

\* utils.py:18: return _global_translator; translate() goes on to use it (:55).
ReturnTranslator(t) ==
    /\ threads[t].pc = "return"
    /\ threads' = [threads EXCEPT ![t].pc = IF threads[t].fn = "translate" THEN "use" ELSE "idle",
                                  ![t].got = Append(@, global_translator)]
    /\ UNCHANGED <<self, calls, sync, batch, clock, vfile, vresult, manager, ucall,
                   global_translator>>

\* utils.py:55-59: translator.translate(...) and the wrapping of its results.
UseTranslator(t) ==
    /\ threads[t].pc = "use"
    /\ threads' = [threads EXCEPT ![t].pc = "idle"]
    /\ UNCHANGED <<self, calls, sync, batch, clock, vfile, vresult, manager, ucall,
                   global_translator>>

InitSingleton ==
    /\ self = NewTranslator(Store)
    /\ calls = << >>
    /\ sync = NoSync
    /\ batch = << >>
    /\ clock = "early"
    /\ vfile = << >>
    /\ vresult = << >>
    /\ manager = << >>
    /\ ucall = << >>
    /\ global_translator = 0
    /\ threads = [t \in 1..NumThreads |-> NewThread]

NextSingleton ==
    \/ \E t \in DOMAIN threads : CallHelper(t)
    \/ \E t \in DOMAIN threads : CheckNone(t)
    \/ \E t \in DOMAIN threads : Construct(t)
    \/ \E t \in DOMAIN threads : Assign(t)
    \/ \E t \in DOMAIN threads : ReturnTranslator(t)
    \/ \E t \in DOMAIN threads : UseTranslator(t)

SpecSingleton == InitSingleton /\ [][NextSingleton]_vars

(***************************** properties of get_translator *******************)
\* C13: whatever the interleaving of the threads, at most one Terminex is
\* constructed and every call of get_translator() returns that one instance.
C13_SingletonOnce ==
    /\ TotalMade <= 1
    /\ \A t, u \in DOMAIN threads :
          \A i \in DOMAIN threads[t].got : \A j \in DOMAIN threads[u].got :
              threads[t].got[i] = threads[u].got[j]

(***************************** properties of the batch order ******************)
\* The calls of run r whose external call is in flight.
InFlight(r) ==
    { k \in DOMAIN batch[r].issued : calls[batch[r].issued[k]].pc = "awaiting" }

\* C14: one run of batch_translate calls the external translator one text at
\* a time and in input order: at most one call is in flight; the call for the
\* next text exists only once the result of the one before is appended and the
\* sleep after it is over; a run that returns has one result per text, in order.
C14_SequentialInOrder ==
    \A r \in DOMAIN batch :
        LET b == batch[r]
            n == Len(b.issued)
        IN  /\ Cardinality(InFlight(r)) <= 1
            /\ n <= Len(b.texts)
            /\ n <= b.i + 1
            /\ b.i <= Len(b.results)
            /\ \A k \in 1..n : calls[b.issued[k]].text = b.texts[k]
            /\ \A k \in 1..(n - 1) :
                  /\ calls[b.issued[k]].pc = "returned"
                  /\ k <= Len(b.results)
                  /\ b.results[k] = calls[b.issued[k]].result[1]
            /\ b.pc = "returned" =>
                  /\ Len(b.results) = Len(b.texts)
                  /\ \A k \in DOMAIN b.texts : b.results[k].original = b.texts[k]

\* A run over two different texts has returned both results, in input order.
C14_Witness ==
    \E r \in DOMAIN batch :
        /\ batch[r].pc = "returned"
        /\ Len(batch[r].texts) = 2
        /\ batch[r].texts[1] # batch[r].texts[2]
        /\ batch[r].results[2].original = batch[r].texts[2]
        /\ batch[r].results[1].text # batch[r].results[2].text

(***************************** list_available_options ************************)
\* TerminologyManager.get_available_domains_languages: a list of pairs.
PairLists == UNION { [1..n -> Domains \X Languages] : n \in 0..MaxPairs }

\* A slip: the domain's list is started anew for every pair.
AddPairReset(domains_dict, pair) ==
    [ d \in DOMAIN domains_dict \cup { pair[1] } |->
        IF d = pair[1] THEN << pair[2] >> ELSE domains_dict[d] ]

\* utils.py:16-18: the body of the loop.
AddPair(domains_dict, pair) ==
    LET started == IF pair[1] \notin DOMAIN domains_dict
                   THEN domains_dict @@ (pair[1] :> << >>)
                   ELSE domains_dict
    IN  [started EXCEPT ![pair[1]] = Append(@, pair[2])]

\* utils.py:14-18
RECURSIVE GroupPairs(_, _)
GroupPairs(pairs, domains_dict) ==
    IF pairs = << >> THEN domains_dict
    ELSE GroupPairs(Tail(pairs), AddPair(domains_dict, Head(pairs)))

\* utils.py:5-25
list_available_options(m) ==
    [ domains |-> m.domains,
      languages |-> m.languages,
      domain_language_pairs |-> m.pairs,
      domains_with_languages |-> GroupPairs(m.pairs, [d \in {} |-> << >>]) ]

ListAvailableOptions ==
    /\ ucall.fn = "list_available_options"
    /\ ucall.pc = "called"
    /\ ucall' = [ucall EXCEPT !.pc = "returned", !.value = << list_available_options(manager) >>]
    /\ UNCHANGED <<self, calls, sync, batch, clock, vfile, vresult,
                   manager, global_translator, threads>>

InitList ==
    /\ self = NewTranslator(Store)
    /\ calls = << >>
    /\ sync = NoSync
    /\ batch = << >>
    /\ clock = "early"
    /\ vfile = << >>
    /\ vresult = << >>
    /\ manager \in { [terms |-> << >>, pairs |-> ps,
                       domains |-> { ps[i][1] : i \in DOMAIN ps },
                       languages |-> { ps[i][2] : i \in DOMAIN ps }] : ps \in PairLists }
    /\ ucall = [fn |-> "list_available_options", pc |-> "called", value |-> << >>]
    /\ global_translator = 0
    /\ threads = << >>

NextList == ListAvailableOptions

SpecList == InitList /\ [][NextList]_vars

(***************************** properties of the listing **********************)
\* The languages paired with domain d, as often and in the order the pairs list has them.
RECURSIVE LanguagesOf(_, _)
LanguagesOf(pairs, d) ==
    IF pairs = << >> THEN << >>
    ELSE (IF Head(pairs)[1] = d THEN << Head(pairs)[2] >> ELSE << >>)
         \o LanguagesOf(Tail(pairs), d)

\* C15: domains_with_languages lists language l under domain d exactly when
\* (d, l) is in domain_language_pairs, as often and in the same order, and has
\* no domain with an empty list.
C15_ListingConsistent ==
    ucall # << >> /\ ucall.fn = "list_available_options" /\ ucall.pc = "returned" =>
        LET r == ucall.value[1]
        IN  /\ r.domain_language_pairs = manager.pairs
            /\ \A d \in Domains :
                  /\ d \in DOMAIN r.domains_with_languages
                        <=> LanguagesOf(r.domain_language_pairs, d) # << >>
                  /\ d \in DOMAIN r.domains_with_languages =>
                        r.domains_with_languages[d] = LanguagesOf(r.domain_language_pairs, d)
            /\ DOMAIN r.domains_with_languages \subseteq Domains

\* A listing of three pairs: one domain with two languages, the other with one.
C15_Witness ==
    /\ ucall # << >> /\ ucall.fn = "list_available_options" /\ ucall.pc = "returned"
    /\ Len(manager.pairs) = 3
    /\ \E d, e \in DOMAIN ucall.value[1].domains_with_languages :
          /\ d # e
          /\ Len(ucall.value[1].domains_with_languages[d]) = 2
          /\ ucall.value[1].domains_with_languages[d][1] # ucall.value[1].domains_with_languages[d][2]

====
